---- MODULE Spec2Model ----
(***************************************************************************)
(* Model of node/server.js: the POST /api/image/add-text endpoint, its     *)
(* multer upload middleware, the addTextToImage compositor with xmlEscape, *)
(* and the global error handler; and of node/image-processing.js, the      *)
(* standalone script: initializeOcean, getImageBuffer and main.            *)
(*                                                                         *)
(* Strings are sequences of symbols.  Where the code looks inside a string *)
(* (xmlEscape, parseInt, toLowerCase, the format whitelist) the symbols    *)
(* are single characters; strings the code only tests for emptiness and    *)
(* passes on (colours, font family, messages) are one symbol per piece.    *)
(*                                                                         *)
(* Numbers that the code divides (font size, stroke width) are kept exact  *)
(* as integer numerators over Scale = 12 * 20.                             *)
(***************************************************************************)
EXTENDS Integers, Sequences, FiniteSets, TLC

VARIABLES
    pc,        \* per request: where its handling stands
    req,       \* per request: the uploaded file and the body fields
    err,       \* per request: the error multer passed to next(err)
    invoked,   \* per request: addTextToImage has been called
    textOpts,  \* per request: the resolved textOpts object
    svgText,   \* per request: the markup handed to sharp's composite
    res,       \* per request: the HTTP response
    log,       \* console.warn / console.error lines, in order
    io,        \* console lines and responses of all requests, in program order
    at,                    \* script: the statement main is at
    env,                   \* script: process.env
    oceanInstance,         \* script: main's oceanInstance
    inputSource,           \* script: the branch getImageBuffer took
    fetched,               \* script: the inputs read or requested, in order
    imageBufferToProcess,  \* script: main's imageBufferToProcess
    processedImageBuffer,  \* script: main's processedImageBuffer
    written,               \* script: the files written, in order
    logger                 \* script: Logger.error / Logger.warn lines, in order

scriptVars == <<at, env, oceanInstance, inputSource, fetched, imageBufferToProcess,
                processedImageBuffer, written, logger>>

serverVars == <<pc, req, err, invoked, textOpts, svgText, res, log, io>>

vars == <<serverVars, scriptVars>>

\* Longest text string drawn for the escaping specification.
MaxLen == 3

Min(a, b) == IF a <= b THEN a ELSE b

Max(a, b) == IF a >= b THEN a ELSE b

\* Denominator of the fixed-point representation: /12 then /20 stay exact.
Scale == 12 * 20

----------------------------------------------------------------------------
(* Request fields as multer / body parsers deliver them.                   *)

\* A body field: absent (undefined), a string, or a non-string value (an
\* array from a repeated field); v is the value's string conversion.
Undefined == [kind |-> "undefined", v |-> <<>>]

Str(s) == [kind |-> "string", v |-> s]

Arr(s) == [kind |-> "array", v |-> s]

\* JavaScript truthiness of a field value: undefined and "" are falsy,
\* every array is truthy.
Truthy(f) == \/ f.kind = "array"
             \/ f.kind = "string" /\ f.v # <<>>

----------------------------------------------------------------------------
(* String helpers of the JavaScript runtime, as the code uses them.        *)

Upper == <<"A","B","C","D","E","F","G","H","I","J","K","L","M",
           "N","O","P","Q","R","S","T","U","V","W","X","Y","Z">>

Lowercase == <<"a","b","c","d","e","f","g","h","i","j","k","l","m",
               "n","o","p","q","r","s","t","u","v","w","x","y","z">>

\* Mutant: the case fold left out.
toLowerCaseMissing(s) == s

\* String.prototype.toLowerCase, character by character.
toLowerCase(s) ==
    [i \in 1..Len(s) |->
        IF \E k \in 1..Len(Upper) : Upper[k] = s[i]
        THEN Lowercase[CHOOSE k \in 1..Len(Upper) : Upper[k] = s[i]]
        ELSE s[i]]

Digits == <<"0","1","2","3","4","5","6","7","8","9">>

IsDigit(c) == \E k \in 1..Len(Digits) : Digits[k] = c

DigitVal(c) == (CHOOSE k \in 1..Len(Digits) : Digits[k] = c) - 1

NaN == [nan |-> TRUE, n |-> 0]

Num(n) == [nan |-> FALSE, n |-> n]

RECURSIVE TrimStart(_)
\* parseInt skips leading white space.
TrimStart(s) == IF s # <<>> /\ Head(s) = " " THEN TrimStart(Tail(s)) ELSE s

RECURSIVE LeadingDigits(_)
\* The longest prefix of s made of decimal digits.
LeadingDigits(s) ==
    IF s # <<>> /\ IsDigit(Head(s))
    THEN <<Head(s)>> \o LeadingDigits(Tail(s))
    ELSE <<>>

RECURSIVE DecimalValue(_)
DecimalValue(ds) ==
    IF ds = <<>> THEN 0
    ELSE 10 * DecimalValue(SubSeq(ds, 1, Len(ds) - 1)) + DigitVal(ds[Len(ds)])

\* parseInt(x, 10): x converted to a string, leading white space skipped, an
\* optional sign, then the leading decimal digits; NaN when there are none.
parseInt(f) ==
    IF f.kind = "undefined" THEN NaN
    ELSE LET t    == TrimStart(f.v)
             neg  == t # <<>> /\ Head(t) = "-"
             sign == t # <<>> /\ Head(t) \in {"-", "+"}
             ds   == LeadingDigits(IF sign THEN Tail(t) ELSE t)
         IN  IF ds = <<>> THEN NaN
             ELSE Num(IF neg THEN 0 - DecimalValue(ds) ELSE DecimalValue(ds))

----------------------------------------------------------------------------
(* xmlEscape                                                               *)

\* The character class of the regular expression /[<>&'"]/g.
EscapeClass == {"<", ">", "&", "'", "\""}

\* Mutant: the apostrophe case of the switch left out.
EscapeMatchNoApos(match) ==
    CASE match = "<"  -> <<"&","l","t",";">>
      [] match = ">"  -> <<"&","g","t",";">>
      [] match = "&"  -> <<"&","a","m","p",";">>
      [] match = "\"" -> <<"&","q","u","o","t",";">>
      [] OTHER        -> <<match>>

\* The replacement callback's switch.
EscapeMatch(match) ==
    CASE match = "<"  -> <<"&","l","t",";">>
      [] match = ">"  -> <<"&","g","t",";">>
      [] match = "&"  -> <<"&","a","m","p",";">>
      [] match = "'"  -> <<"&","a","p","o","s",";">>
      [] match = "\"" -> <<"&","q","u","o","t",";">>
      [] OTHER        -> <<match>>

RECURSIVE ReplaceAll(_)
\* str.replace(/[<>&'"]/g, callback): every match replaced, the rest kept.
ReplaceAll(s) ==
    IF s = <<>> THEN <<>>
    ELSE (IF Head(s) \in EscapeClass THEN EscapeMatch(Head(s)) ELSE <<Head(s)>>)
         \o ReplaceAll(Tail(s))

\* xmlEscape(str): '' for a value that is not a string.
xmlEscape(str) == IF str.kind # "string" THEN <<>> ELSE ReplaceAll(str.v)

----------------------------------------------------------------------------
(* addTextToImage: option resolution and markup (lines 77-124).            *)

jpeg == <<"j","p","e","g">>

jpg == <<"j","p","g">>

png == <<"p","n","g">>

webp == <<"w","e","b","p">>

tiff == <<"t","i","f","f">>

gif == <<"g","i","f">>

avif == <<"a","v","i","f">>

validFormats == {jpeg, jpg, png, webp, tiff, gif, avif}

\* The literal "Sample Text" of line 82.
SampleText == <<"S","a","m","p","l","e"," ","T","e","x","t">>

\* Mutant: the quotient truncated to an integer.
defaultFontSizeTruncated(metadata) ==
    Max(20 * Scale, (Min(metadata.width, metadata.height) \div 12) * Scale)

\* Mutant: the larger dimension taken instead of the smaller.
defaultFontSizeOfMax(metadata) ==
    Max(20 * Scale, (Max(metadata.width, metadata.height) * Scale) \div 12)

\* Math.max(20, Math.min(metadata.width, metadata.height) / 12), over Scale.
defaultFontSize(metadata) ==
    Max(20 * Scale, (Min(metadata.width, metadata.height) * Scale) \div 12)

\* parseInt(options.fontSize, 10) || defaultFontSize: NaN and 0 are falsy.
currentFontSize(metadata, options) ==
    LET p == parseInt(options.fontSize)
    IN  IF ~p.nan /\ p.n # 0 THEN p.n * Scale ELSE defaultFontSize(metadata)

\* Mutant: the stroke derived from the default font size, not the resolved one.
strokeWidthFromDefault(metadata, options) ==
    LET p == parseInt(options.strokeWidth)
    IN  IF ~p.nan /\ p.n >= 0 THEN p.n * Scale
        ELSE Max(1 * Scale, defaultFontSize(metadata) \div 20)

\* parseInt(options.strokeWidth, 10) >= 0 ? that : Math.max(1, currentFontSize / 20)
strokeWidth(metadata, options) ==
    LET p == parseInt(options.strokeWidth)
    IN  IF ~p.nan /\ p.n >= 0 THEN p.n * Scale
        ELSE Max(1 * Scale, currentFontSize(metadata, options) \div 20)

\* Mutant: a ?? b, which keeps an empty string.
OrDefaultNullish(f, d) == IF f = Undefined THEN Str(d) ELSE f

\* a || b for a field a and a default string b.
OrDefault(f, d) == IF Truthy(f) THEN f ELSE Str(d)

\* Mutant: the source image's detected format ignored.
pickedFormatNoMetadata(metadata, options) ==
    IF Truthy(options.outputFormat) THEN options.outputFormat ELSE Str(png)

\* options.outputFormat || metadata.format || 'png', before .toLowerCase().
pickedFormat(metadata, options) ==
    IF Truthy(options.outputFormat) THEN options.outputFormat
    ELSE OrDefault(metadata.format, png)

\* .toLowerCase() exists on strings only: any other value raises a TypeError.
formatThrows(metadata, options) == pickedFormat(metadata, options).kind # "string"

\* textOpts.outputFormat as first assigned (line 92).
loweredFormat(metadata, options) == toLowerCase(pickedFormat(metadata, options).v)

\* The whitelist test of line 97, which warns and falls back to png.
formatInvalid(metadata, options) == loweredFormat(metadata, options) \notin validFormats

\* Mutant: the jpg alias left out.
outputFormatNoAlias(metadata, options) ==
    LET lowered == loweredFormat(metadata, options)
    IN  IF lowered \notin validFormats THEN png ELSE lowered

\* Mutant: the whitelist test left out.
outputFormatNoWhitelist(metadata, options) ==
    LET lowered == loweredFormat(metadata, options)
    IN  IF lowered = jpg THEN jpeg ELSE lowered

\* textOpts.outputFormat after validation and the jpg alias (lines 95-103).
outputFormat(metadata, options) ==
    LET lowered   == loweredFormat(metadata, options)
        validated == IF lowered \notin validFormats THEN png ELSE lowered
    IN  IF validated = jpg THEN jpeg ELSE validated

\* The textOpts object (lines 81-103); evaluated only when nothing throws.
resolveTextOpts(metadata, textValue, options) ==
    [text             |-> xmlEscape(OrDefault(textValue, SampleText)),
     fontFamily       |-> OrDefault(options.fontFamily, <<"Arial">>).v,
     fontSize         |-> currentFontSize(metadata, options),
     fontColor        |-> OrDefault(options.fontColor, <<"#FFFFFF">>).v,
     strokeColor      |-> OrDefault(options.strokeColor, <<"#000000">>).v,
     strokeWidth      |-> strokeWidth(metadata, options),
     xPosition        |-> OrDefault(options.xPosition, <<"50%">>).v,
     yPosition        |-> OrDefault(options.yPosition, <<"50%">>).v,
     textAlign        |-> OrDefault(options.textAlign, <<"middle">>).v,
     dominantBaseline |-> OrDefault(options.dominantBaseline, <<"middle">>).v,
     outputFormat     |-> outputFormat(metadata, options)]

\* The interpolated holes of the SVG template (lines 105-123), in order.
buildSvg(metadata, opts) ==
    [width          |-> metadata.width,
     height         |-> metadata.height,
     fill           |-> opts.fontColor,
     fontSize       |-> opts.fontSize,
     fontFamily     |-> opts.fontFamily,
     textAnchor     |-> opts.textAlign,
     baseline       |-> opts.dominantBaseline,
     stroke         |-> opts.strokeColor,
     strokeWidth    |-> opts.strokeWidth,
     x              |-> opts.xPosition,
     y              |-> opts.yPosition,
     textNode       |-> opts.text]

----------------------------------------------------------------------------
(* The HTTP endpoint: multer, the route handler, the global error handler. *)

\* limits.fileSize of the multer configuration, in bytes.
fileSize == 10 * 1024 * 1024

allowedMimes == {"image/jpeg", "image/png", "image/gif", "image/webp",
                 "image/avif", "image/tiff"}

NoFile == [present |-> FALSE, mimetype |-> "", size |-> 0,
           width |-> 0, height |-> 0, format |-> Undefined]

\* An uploaded file: what the client declared (mimetype), its length, and
\* what sharp's metadata() reports when it can decode the bytes.
File(mime, bytes, w, h, fmt) ==
    [present |-> TRUE, mimetype |-> mime, size |-> bytes,
     width |-> w, height |-> h, format |-> fmt]

NoBody == [text |-> Undefined, fontFamily |-> Undefined, fontSize |-> Undefined,
           fontColor |-> Undefined, strokeColor |-> Undefined,
           strokeWidth |-> Undefined, xPosition |-> Undefined,
           yPosition |-> Undefined, textAlign |-> Undefined,
           dominantBaseline |-> Undefined, outputFormat |-> Undefined]

NoReq == [file |-> NoFile, body |-> NoBody]

NoErr == [multer |-> FALSE, message |-> <<>>]

NoOpts == [text |-> <<>>, fontFamily |-> <<>>, fontSize |-> 0, fontColor |-> <<>>,
           strokeColor |-> <<>>, strokeWidth |-> 0, xPosition |-> <<>>,
           yPosition |-> <<>>, textAlign |-> <<>>, dominantBaseline |-> <<>>,
           outputFormat |-> <<>>]

NoSvg == [width |-> 0, height |-> 0, fill |-> <<>>, fontSize |-> 0,
          fontFamily |-> <<>>, textAnchor |-> <<>>, baseline |-> <<>>,
          stroke |-> <<>>, strokeWidth |-> 0, x |-> <<>>, y |-> <<>>,
          textNode |-> <<>>]

\* A response not yet sent; Express starts every response with status 200.
NoRes == [sent |-> FALSE, status |-> 200, contentType |-> <<>>,
          body |-> "none", error |-> <<>>, format |-> <<>>]

\* res.status(code).json({error: message})
JsonError(code, message) ==
    [sent |-> TRUE, status |-> code, contentType |-> <<"application/json">>,
     body |-> "json", error |-> message, format |-> <<>>]

\* Mutant: the Content-Type header left unset, so Express sends its default.
ImageResponseNoType(fmt) ==
    [sent |-> TRUE, status |-> 200, contentType |-> <<"application/octet-stream">>,
     body |-> "image", error |-> <<>>, format |-> fmt]

\* res.set('Content-Type', `image/${outputFormat}`); res.send(outputBuffer)
ImageResponse(fmt) ==
    [sent |-> TRUE, status |-> 200, contentType |-> <<"image/">> \o fmt,
     body |-> "image", error |-> <<>>, format |-> fmt]

\* The options object the route gathers from req.body (lines 189-200).
gatherOptions(body) ==
    [fontFamily |-> body.fontFamily, fontSize |-> body.fontSize,
     fontColor |-> body.fontColor, strokeColor |-> body.strokeColor,
     strokeWidth |-> body.strokeWidth, xPosition |-> body.xPosition,
     yPosition |-> body.yPosition, textAlign |-> body.textAlign,
     dominantBaseline |-> body.dominantBaseline,
     outputFormat |-> body.outputFormat]

\* What image.metadata() resolves with for an uploaded file.
metadataOf(file) ==
    [width |-> file.width, height |-> file.height, format |-> file.format]

\* Messages with which sharp rejects a decode or an encode.
SharpErrors == {<<"Input buffer contains unsupported image format">>,
                <<"Input buffer has corrupt header">>}

TypeErrorMessage == <<"(intermediate value).toLowerCase is not a function">>

LogLine(r, level, tag) == [r |-> r, level |-> level, tag |-> tag]

\* console.error(tag, error) / console.warn(...) as an output event: the
\* request it belongs to and the message of the error it prints.
Console(r, tag, message) == [kind |-> "console", r |-> r, tag |-> tag,
                             status |-> 0, message |-> message]

\* res.json(...) / res.send(...) as an output event.
Sent(r, status) == [kind |-> "response", r |-> r, tag |-> "", status |-> status,
                    message |-> <<>>]

\* Mutant: the route answers with its fixed fallback text only.
processingFailureGeneric(r, message) ==
    /\ log' = log \o <<LogLine(r, "error", "Error in addTextToImage:"),
                       LogLine(r, "error", "Route /api/image/add-text error:")>>
    /\ res' = [res EXCEPT ![r] =
                  JsonError(500, <<"An error occurred while processing the image.">>)]
    /\ io' = io \o <<Console(r, "Error in addTextToImage:", message),
                     Console(r, "Route /api/image/add-text error:",
                             <<"Failed to add text overlay: ">> \o message),
                     Sent(r, 500)>>
    /\ pc' = [pc EXCEPT ![r] = "done"]

\* The catch of addTextToImage (lines 157-160) rethrowing into the catch of
\* the route (lines 207-210): two error lines, then the 500 response.
processingFailure(r, message) ==
    /\ log' = log \o <<LogLine(r, "error", "Error in addTextToImage:"),
                       LogLine(r, "error", "Route /api/image/add-text error:")>>
    /\ res' = [res EXCEPT ![r] =
                  JsonError(500, <<"Failed to add text overlay: ">> \o message)]
    /\ io' = io \o <<Console(r, "Error in addTextToImage:", message),
                     Console(r, "Route /api/image/add-text error:",
                             <<"Failed to add text overlay: ">> \o message),
                     Sent(r, 500)>>
    /\ pc' = [pc EXCEPT ![r] = "done"]

----------------------------------------------------------------------------
(* The requests clients send.                                              *)

HiThere == <<"H","i"," ","<","t","h","e","r","e",">">>

GoodFile == File("image/png", 1024, 400, 300, Str(png))

Alphabet == {"<", ">", "&", "'", "\"", "a"}

\* Every string over Alphabet of length at most n.
Texts(n) == UNION {[1..k -> Alphabet] : k \in 0..n}

\* Text fields exercising xmlEscape.
EscapeRequests ==
    {[file |-> GoodFile, body |-> [NoBody EXCEPT !.text = Str(t)]] :
        t \in Texts(MaxLen)}

\* Every letter case of jpg.
JpgCases == {<<j, p, g>> : j \in {"j", "J"}, p \in {"p", "P"}, g \in {"g", "G"}}

\* outputFormat values: absent, empty, every letter case of jpg, the other
\* whitelisted names, names off the whitelist, and a repeated field.
FormatFields ==
    {Undefined, Arr(<<"p","n","g",",","g","i","f">>)} \cup
    {Str(f) : f \in JpgCases} \cup
    {Str(f) : f \in
        {<<>>, jpeg, png, webp, tiff, gif, avif,
         <<"J","P","E","G">>, <<"P","n","G">>, <<"G","I","F">>, <<"W","e","b","P">>,
         <<"b","m","p">>, <<"B","M","P">>, <<" ","p","n","g">>, <<"s","v","g">>,
         <<"j","p","e">>}}

\* metadata.format values sharp reports (avif files report heif), or none.
DetectedFormats ==
    {Undefined} \cup
    {Str(f) : f \in {jpeg, png, webp, gif, tiff, <<"h","e","i","f">>, <<"s","v","g">>}}

FormatRequests ==
    {[file |-> File("image/jpeg", 1024, 400, 300, d),
      body |-> [NoBody EXCEPT !.text = Str(<<"a">>), !.outputFormat = o]] :
        d \in DetectedFormats, o \in FormatFields}

Widths == {100, 400, 1300}

Heights == {250, 300, 1000}

\* fontSize and strokeWidth values: absent, empty, zero, negative,
\* non-numeric, numeric with a suffix or padding, and a repeated field.
FontSizeFields ==
    {Undefined, Arr(<<"1","2",",","7">>)} \cup
    {Str(f) : f \in {<<>>, <<"0">>, <<"-","5">>, <<"a","b","c">>, <<"4","0">>,
                     <<"1","2","p","x">>, <<" ","7">>, <<"+","3">>, <<"7",".","9">>}}

StrokeWidthFields ==
    {Undefined} \cup
    {Str(f) : f \in {<<>>, <<"0">>, <<"-","0">>, <<"-","1">>, <<"2">>, <<"x">>,
                     <<"3",".","5">>}}

SizeRequests ==
    {[file |-> File("image/png", 1024, w, h, Str(png)),
      body |-> [NoBody EXCEPT !.text = Str(<<"a">>), !.fontSize = fs,
                              !.strokeWidth = sw]] :
        w \in Widths, h \in Heights, fs \in FontSizeFields, sw \in StrokeWidthFields}

StyledBody ==
    [NoBody EXCEPT !.fontFamily = Str(<<"Verdana">>), !.fontColor = Str(<<"#FF0000">>),
                   !.strokeColor = Str(<<>>), !.xPosition = Str(<<"10%">>),
                   !.yPosition = Str(<<"90%">>), !.textAlign = Str(<<"start">>),
                   !.dominantBaseline = Str(<<"hanging">>),
                   !.outputFormat = Str(<<"J","P","G">>)]

\* Uploads: none, accepted, a disallowed type, too large, and both.
UploadFiles ==
    {NoFile, GoodFile,
     File("text/plain", 1024, 400, 300, Undefined),
     File("image/png", fileSize + 1, 400, 300, Str(png)),
     File("application/pdf", fileSize + 1, 400, 300, Undefined)}

TextFields == {Undefined, Str(<<>>), Str(HiThere), Arr(<<"a",",","b">>)}

EndpointRequests ==
    {[file |-> f, body |-> [b EXCEPT !.text = t]] :
        f \in UploadFiles, t \in TextFields, b \in {NoBody, StyledBody}}

Requests == EndpointRequests \cup EscapeRequests \cup FormatRequests \cup SizeRequests

----------------------------------------------------------------------------
(* Actions.                                                                *)

\* A client sends one of the requests of R; multer starts parsing it.
Receive(r, R) ==
    /\ pc[r] = "idle"
    /\ \E q \in R : req' = [req EXCEPT ![r] = q]
    /\ pc' = [pc EXCEPT ![r] = "upload"]
    /\ UNCHANGED <<err, invoked, textOpts, svgText, res, log, io>>
    /\ UNCHANGED scriptVars

\* upload.single('image'): fileFilter rejects a disallowed type with a plain
\* Error, the size limit raises a MulterError; both go to next(err).
Upload(r) ==
    /\ pc[r] = "upload"
    /\ LET file == req[r].file
       IN  IF ~file.present
           THEN /\ pc' = [pc EXCEPT ![r] = "route"]
                /\ err' = err
           ELSE IF file.mimetype \notin allowedMimes
           THEN /\ pc' = [pc EXCEPT ![r] = "error"]
                /\ err' = [err EXCEPT ![r] =
                      [multer  |-> FALSE,
                       message |-> <<"Invalid file type. Only image files are allowed.">>]]
           ELSE IF file.size > fileSize
           THEN /\ pc' = [pc EXCEPT ![r] = "error"]
                /\ err' = [err EXCEPT ![r] =
                      [multer |-> TRUE, message |-> <<"File too large">>]]
           ELSE /\ pc' = [pc EXCEPT ![r] = "route"]
                /\ err' = err
    /\ UNCHANGED <<req, invoked, textOpts, svgText, res, log, io>>
    /\ UNCHANGED scriptVars

\* Mutant: the handler answers without writing its console.error line.
ErrorHandlerSilent(r) ==
    /\ pc[r] = "error"
    /\ IF err[r].multer
       THEN /\ io' = Append(io, Sent(r, 400))
            /\ res' = [res EXCEPT ![r] =
                  JsonError(400, <<"File upload error: ">> \o err[r].message
                                 \o <<". Check file size or type.">>)]
       ELSE /\ io' = Append(io, Sent(r, 500))
            /\ res' = [res EXCEPT ![r] =
                  JsonError(500, IF err[r].message # <<>> THEN err[r].message
                                 ELSE <<"An unexpected error occurred.">>)]
    /\ pc' = [pc EXCEPT ![r] = "done"]
    /\ UNCHANGED <<req, err, invoked, textOpts, svgText, log>>
    /\ UNCHANGED scriptVars

\* Mutant: an error that is not a MulterError is logged and left unanswered.
ErrorHandlerDrops(r) ==
    /\ pc[r] = "error"
    /\ IF err[r].multer
       THEN /\ log' = Append(log, LogLine(r, "error", "Multer error:"))
            /\ io' = io \o <<Console(r, "Multer error:", err[r].message), Sent(r, 400)>>
            /\ res' = [res EXCEPT ![r] =
                  JsonError(400, <<"File upload error: ">> \o err[r].message
                                 \o <<". Check file size or type.">>)]
       ELSE /\ log' = Append(log, LogLine(r, "error", "Unhandled error:"))
            /\ io' = Append(io, Console(r, "Unhandled error:", err[r].message))
            /\ res' = res
    /\ pc' = [pc EXCEPT ![r] = "done"]
    /\ UNCHANGED <<req, err, invoked, textOpts, svgText>>
    /\ UNCHANGED scriptVars

\* The global error handler (lines 214-223).
ErrorHandler(r) ==
    /\ pc[r] = "error"
    /\ IF err[r].multer
       THEN /\ log' = Append(log, LogLine(r, "error", "Multer error:"))
            /\ io' = io \o <<Console(r, "Multer error:", err[r].message), Sent(r, 400)>>
            /\ res' = [res EXCEPT ![r] =
                  JsonError(400, <<"File upload error: ">> \o err[r].message
                                 \o <<". Check file size or type.">>)]
       ELSE /\ log' = Append(log, LogLine(r, "error", "Unhandled error:"))
            /\ io' = io \o <<Console(r, "Unhandled error:", err[r].message), Sent(r, 500)>>
            /\ res' = [res EXCEPT ![r] =
                  JsonError(500, IF err[r].message # <<>> THEN err[r].message
                                 ELSE <<"An unexpected error occurred.">>)]
    /\ pc' = [pc EXCEPT ![r] = "done"]
    /\ UNCHANGED <<req, err, invoked, textOpts, svgText>>
    /\ UNCHANGED scriptVars

\* Mutant: the text check made before the file check.
RouteTextFirst(r) ==
    /\ pc[r] = "route"
    /\ LET body == req[r].body
       IN  IF ~Truthy(body.text) /\ body.text # Str(<<>>)
           THEN /\ res' = [res EXCEPT ![r] =
                      JsonError(400, <<"No text parameter provided for overlay.">>)]
                /\ io' = Append(io, Sent(r, 400))
                /\ pc' = [pc EXCEPT ![r] = "done"]
                /\ invoked' = invoked
           ELSE IF ~req[r].file.present
           THEN /\ res' = [res EXCEPT ![r] = JsonError(400, <<"No image file uploaded.">>)]
                /\ io' = Append(io, Sent(r, 400))
                /\ pc' = [pc EXCEPT ![r] = "done"]
                /\ invoked' = invoked
           ELSE /\ invoked' = [invoked EXCEPT ![r] = TRUE]
                /\ pc' = [pc EXCEPT ![r] = "metadata"]
                /\ res' = res
                /\ io' = io
    /\ UNCHANGED <<req, err, textOpts, svgText, log>>
    /\ UNCHANGED scriptVars

\* Mutant: the text check written as !req.body.text alone.
RouteRejectsEmptyText(r) ==
    /\ pc[r] = "route"
    /\ LET body == req[r].body
       IN  IF ~req[r].file.present
           THEN /\ res' = [res EXCEPT ![r] = JsonError(400, <<"No image file uploaded.">>)]
                /\ io' = Append(io, Sent(r, 400))
                /\ pc' = [pc EXCEPT ![r] = "done"]
                /\ invoked' = invoked
           ELSE IF ~Truthy(body.text)
           THEN /\ res' = [res EXCEPT ![r] =
                      JsonError(400, <<"No text parameter provided for overlay.">>)]
                /\ io' = Append(io, Sent(r, 400))
                /\ pc' = [pc EXCEPT ![r] = "done"]
                /\ invoked' = invoked
           ELSE /\ invoked' = [invoked EXCEPT ![r] = TRUE]
                /\ pc' = [pc EXCEPT ![r] = "metadata"]
                /\ res' = res
                /\ io' = io
    /\ UNCHANGED <<req, err, textOpts, svgText, log>>
    /\ UNCHANGED scriptVars

\* The route handler up to its first await (lines 176-202 and 72-75): the
\* two 400 checks, then the call of addTextToImage, which awaits metadata().
Route(r) ==
    /\ pc[r] = "route"
    /\ LET body == req[r].body
       IN  IF ~req[r].file.present
           THEN /\ res' = [res EXCEPT ![r] = JsonError(400, <<"No image file uploaded.">>)]
                /\ io' = Append(io, Sent(r, 400))
                /\ pc' = [pc EXCEPT ![r] = "done"]
                /\ invoked' = invoked
           ELSE IF ~Truthy(body.text) /\ body.text # Str(<<>>)
           THEN /\ res' = [res EXCEPT ![r] =
                      JsonError(400, <<"No text parameter provided for overlay.">>)]
                /\ io' = Append(io, Sent(r, 400))
                /\ pc' = [pc EXCEPT ![r] = "done"]
                /\ invoked' = invoked
           ELSE /\ invoked' = [invoked EXCEPT ![r] = TRUE]
                /\ pc' = [pc EXCEPT ![r] = "metadata"]
                /\ res' = res
                /\ io' = io
    /\ UNCHANGED <<req, err, textOpts, svgText, log>>
    /\ UNCHANGED scriptVars

\* image.metadata() rejects: the request fails.
MetadataFails(r) ==
    /\ pc[r] = "metadata"
    /\ \E m \in SharpErrors : processingFailure(r, m)
    /\ UNCHANGED <<req, err, invoked, textOpts, svgText>>
    /\ UNCHANGED scriptVars

\* image.metadata() resolves: options are resolved and the markup built
\* (lines 77-124), the overlay composited, and the encode awaited; a
\* TypeError raised while resolving fails the request.
Resolve(r) ==
    /\ pc[r] = "metadata"
    /\ LET metadata == metadataOf(req[r].file)
           options  == gatherOptions(req[r].body)
           opts     == resolveTextOpts(metadata, req[r].body.text, options)
       IN  IF formatThrows(metadata, options)
           THEN /\ processingFailure(r, TypeErrorMessage)
                /\ UNCHANGED <<textOpts, svgText>>
           ELSE /\ textOpts' = [textOpts EXCEPT ![r] = opts]
                /\ svgText' = [svgText EXCEPT ![r] = buildSvg(metadata, opts)]
                /\ log' = IF formatInvalid(metadata, options)
                          THEN Append(log, LogLine(r, "warn", "Invalid output format:"))
                          ELSE log
                /\ io' = IF formatInvalid(metadata, options)
                         THEN Append(io, Console(r, "Invalid output format:",
                                                 loweredFormat(metadata, options)))
                         ELSE io
                /\ pc' = [pc EXCEPT ![r] = "encode"]
                /\ res' = res
    /\ UNCHANGED <<req, err, invoked>>
    /\ UNCHANGED scriptVars

\* toBuffer() rejects: the request fails.
EncodeFails(r) ==
    /\ pc[r] = "encode"
    /\ \E m \in SharpErrors : processingFailure(r, m)
    /\ UNCHANGED <<req, err, invoked, textOpts, svgText>>
    /\ UNCHANGED scriptVars

\* Mutant: the resolved options kept in one variable shared by all requests,
\* so the response is built from whichever request resolved its options.
RespondShared(r) ==
    /\ pc[r] = "encode"
    /\ \E s \in DOMAIN pc :
          /\ textOpts[s] # NoOpts
          /\ res' = [res EXCEPT ![r] = ImageResponse(textOpts[s].outputFormat)]
    /\ io' = Append(io, Sent(r, 200))
    /\ pc' = [pc EXCEPT ![r] = "done"]
    /\ UNCHANGED <<req, err, invoked, textOpts, svgText, log>>
    /\ UNCHANGED scriptVars

\* toBuffer() resolves: addTextToImage returns {buffer, format} and the route
\* sends the image (lines 155 and 202-205).
Respond(r) ==
    /\ pc[r] = "encode"
    /\ res' = [res EXCEPT ![r] = ImageResponse(textOpts[r].outputFormat)]
    /\ io' = Append(io, Sent(r, 200))
    /\ pc' = [pc EXCEPT ![r] = "done"]
    /\ UNCHANGED <<req, err, invoked, textOpts, svgText, log>>
    /\ UNCHANGED scriptVars

----------------------------------------------------------------------------
(* The standalone script image-processing.js.                              *)

\* process.env values are absent or strings; a || b for two of them.
OrEnv(a, b) == IF Truthy(a) THEN a ELSE b

\* null, as the value of oceanInstance and of the two buffers.
NullOcean == [present |-> FALSE, provider |-> FALSE]

\* An Ocean instance, with or without its provider property.
Ocean(provider) == [present |-> TRUE, provider |-> provider]

Null == "null"

\* A Buffer, of any content.
ImageBuffer == "Buffer"

defaultImageUrl ==
    <<"https://raw.githubusercontent.com/oceanprotocol/c2d-examples/main/custom_algorithm/lena.png">>

\* One read of, or request for, an input: the kind of source and what was
\* asked of it (a path, a DID or a URL).
Fetched(source, target) == [source |-> source, target |-> target]

\* The environment of a run: each input variable absent, empty or set, the
\* Ocean switches absent or set.
Envs ==
    [INPUT_FILE_PATH_0     : {Undefined, Str(<<>>), Str(<<"/data/inputs/0/a.png">>)},
     INPUT_DID_0           : {Undefined, Str(<<>>), Str(<<"did:op:1">>)},
     INPUT_IMAGE_URL       : {Undefined, Str(<<>>), Str(<<"https://input.example/a.png">>)},
     IMAGE_URL             : {Undefined, Str(<<>>), Str(<<"https://image.example/b.png">>)},
     ENABLE_OCEAN_FEATURES : {Undefined, Str(<<"true">>)},
     OCEAN_NODE_URL        : {Undefined, Str(<<"https://node.example">>)},
     OCEAN_PROVIDER_URL    : {Undefined, Str(<<"https://provider.example">>)},
     OCEAN_CHAIN_ID        : {Undefined, Str(<<"137">>)}]

\* The environment with nothing set.
NoEnv ==
    [INPUT_FILE_PATH_0 |-> Undefined, INPUT_DID_0 |-> Undefined,
     INPUT_IMAGE_URL |-> Undefined, IMAGE_URL |-> Undefined,
     ENABLE_OCEAN_FEATURES |-> Undefined, OCEAN_NODE_URL |-> Undefined,
     OCEAN_PROVIDER_URL |-> Undefined, OCEAN_CHAIN_ID |-> Undefined]

\* The script is not run: the server specifications leave it so.
ScriptNotRun ==
    /\ at = "off"
    /\ env = NoEnv
    /\ oceanInstance = NullOcean
    /\ inputSource = "none"
    /\ fetched = <<>>
    /\ imageBufferToProcess = Null
    /\ processedImageBuffer = Null
    /\ written = <<>>
    /\ logger = <<>>

\* main up to its call of getImageBuffer (lines 296-326), with
\* initializeOcean (lines 17-60): Ocean is initialised only when a DID or
\* the feature switch is set, and is null when its configuration is
\* incomplete or Ocean.getInstance throws.
MainStart ==
    /\ at = "main"
    /\ IF Truthy(env.INPUT_DID_0) \/ Truthy(env.ENABLE_OCEAN_FEATURES)
       THEN IF \/ ~Truthy(env.OCEAN_NODE_URL)
               \/ ~Truthy(env.OCEAN_PROVIDER_URL)
               \/ ~Truthy(env.OCEAN_CHAIN_ID)
            THEN /\ oceanInstance' = NullOcean
                 /\ logger' = logger \o
                       <<"OCEAN_NODE_URL, OCEAN_PROVIDER_URL, and OCEAN_CHAIN_ID must be set",
                         "Failed to initialize Ocean Protocol.">>
            ELSE \E o \in {NullOcean, Ocean(TRUE), Ocean(FALSE)} :
                    /\ oceanInstance' = o
                    /\ logger' = logger \o
                          (IF ~o.present
                           THEN <<"Error initializing Ocean Protocol instance:",
                                  "Failed to initialize Ocean Protocol.">>
                           ELSE IF ~o.provider
                           THEN <<"Ocean Provider might not be initialized directly">>
                           ELSE <<>>)
       ELSE /\ oceanInstance' = NullOcean
            /\ logger' = logger
    /\ at' = "getImageBuffer"
    /\ UNCHANGED <<env, inputSource, fetched, imageBufferToProcess,
                   processedImageBuffer, written>>
    /\ UNCHANGED serverVars

\* getImageBuffer returns b to main after logging lines (lines 328-336):
\* without a buffer main logs the fatal line and returns.
returnImageBuffer(b, lines) ==
    /\ imageBufferToProcess' = b
    /\ logger' = logger \o lines \o
          (IF b = Null
           THEN <<"Fatal: Could not obtain image buffer. Cannot proceed.">>
           ELSE <<>>)
    /\ at' = IF b = Null THEN "done" ELSE "applyFilterAndTextToBuffer"

\* The else-if branches of getImageBuffer (lines 175-202): the DID, the
\* configured URL, the default URL.
elseBranches(prior, inputDid, inputUrl) ==
    IF Truthy(inputDid)
    THEN /\ inputSource' = "did"
         /\ IF ~oceanInstance.present
            THEN /\ fetched' = prior
                 /\ returnImageBuffer(Null,
                       <<"Ocean instance not initialized, cannot process DID input.">>)
            ELSE \E mkdir \in BOOLEAN :
                    IF mkdir
                    THEN /\ fetched' = Append(prior, Fetched("did", inputDid.v))
                         /\ at' = "downloadOceanAsset"
                         /\ UNCHANGED <<imageBufferToProcess, logger>>
                    ELSE /\ fetched' = prior
                         /\ returnImageBuffer(Null, <<"Error getting image buffer:">>)
    ELSE IF Truthy(inputUrl)
    THEN /\ inputSource' = "url"
         /\ fetched' = Append(prior, Fetched("url", inputUrl.v))
         /\ at' = "axios.get"
         /\ UNCHANGED <<imageBufferToProcess, logger>>
    ELSE /\ inputSource' = "default"
         /\ fetched' = Append(prior, Fetched("url", defaultImageUrl))
         /\ at' = "axios.get"
         /\ logger' = Append(logger, "No specific input provided. Using default image URL:")
         /\ imageBufferToProcess' = imageBufferToProcess

\* Mutant: a file path that does not exist is logged and the next source
\* tried.
GetImageBufferFallsThrough ==
    /\ at = "getImageBuffer"
    /\ LET inputFile == env.INPUT_FILE_PATH_0
           inputDid  == env.INPUT_DID_0
           inputUrl  == OrEnv(env.INPUT_IMAGE_URL, env.IMAGE_URL)
       IN  IF Truthy(inputFile)
           THEN \E exists \in BOOLEAN :
                   IF exists
                   THEN /\ inputSource' = "file"
                        /\ fetched' = Append(fetched, Fetched("file", inputFile.v))
                        /\ at' = "readFile"
                        /\ UNCHANGED <<imageBufferToProcess, logger>>
                   ELSE elseBranches(Append(fetched, Fetched("file", inputFile.v)),
                                     inputDid, inputUrl)
           ELSE elseBranches(fetched, inputDid, inputUrl)
    /\ UNCHANGED <<env, oceanInstance, processedImageBuffer, written>>
    /\ UNCHANGED serverVars

\* getImageBuffer up to its first await or return (lines 160-202): the
\* first set variable picks the branch; a missing file and a null Ocean
\* instance return null at once.
GetImageBuffer ==
    /\ at = "getImageBuffer"
    /\ LET inputFile == env.INPUT_FILE_PATH_0
           inputDid  == env.INPUT_DID_0
           inputUrl  == OrEnv(env.INPUT_IMAGE_URL, env.IMAGE_URL)
       IN  IF Truthy(inputFile)
           THEN /\ inputSource' = "file"
                /\ fetched' = Append(fetched, Fetched("file", inputFile.v))
                /\ \E exists \in BOOLEAN :
                      IF exists
                      THEN /\ at' = "readFile"
                           /\ UNCHANGED <<imageBufferToProcess, logger>>
                      ELSE returnImageBuffer(Null,
                              <<"Error: Input file path does not exist:">>)
           ELSE elseBranches(fetched, inputDid, inputUrl)
    /\ UNCHANGED <<env, oceanInstance, processedImageBuffer, written>>
    /\ UNCHANGED serverVars

\* fs.promises.readFile of the input file or of the downloaded asset settles
\* (lines 170 and 189); a rejection is caught at line 203.
ReadFile ==
    /\ at = "readFile"
    /\ \E ok \in BOOLEAN :
          IF ok
          THEN returnImageBuffer(ImageBuffer, <<>>)
          ELSE returnImageBuffer(Null, <<"Error getting image buffer:">>)
    /\ UNCHANGED <<env, oceanInstance, inputSource, fetched, processedImageBuffer,
                   written>>
    /\ UNCHANGED serverVars

\* The lines with which downloadOceanAsset gives up (lines 80-150).
DownloadFailures ==
    {"Could not resolve DDO for DID:",
     "No suitable service found in DDO for DID:",
     "Ocean Provider is not available.",
     "No file objects returned by provider for download.",
     "Could not get a downloadable URL for DID:",
     "Error downloading asset"}

\* downloadOceanAsset (lines 72-152, called at line 187): the asset is saved
\* to downloadPath (line 141) and then read, or one step fails and
\* getImageBuffer returns null.
DownloadOceanAsset ==
    /\ at = "downloadOceanAsset"
    /\ \/ /\ oceanInstance.provider
          /\ written' = Append(written, "downloadPath")
          /\ at' = "readFile"
          /\ UNCHANGED <<imageBufferToProcess, logger>>
       \/ \E line \in DownloadFailures :
             /\ line = "Ocean Provider is not available." => ~oceanInstance.provider
             /\ line \in {"No file objects returned by provider for download.",
                          "Could not get a downloadable URL for DID:"}
                   => oceanInstance.provider
             /\ returnImageBuffer(Null, <<line>>)
             /\ written' = written
    /\ UNCHANGED <<env, oceanInstance, inputSource, fetched, processedImageBuffer>>
    /\ UNCHANGED serverVars

\* axios.get of the configured or the default URL settles (lines 196-201).
AxiosGet ==
    /\ at = "axios.get"
    /\ \E ok \in BOOLEAN :
          IF ok
          THEN returnImageBuffer(ImageBuffer, <<>>)
          ELSE returnImageBuffer(Null, <<"Error getting image buffer:">>)
    /\ UNCHANGED <<env, oceanInstance, inputSource, fetched, processedImageBuffer,
                   written>>
    /\ UNCHANGED serverVars

\* applyFilterAndTextToBuffer (lines 223-291) resolves with a buffer, or with
\* null after an error of sharp; main goes on to write or ends (lines
\* 338-345 and 390-392).
ApplyFilterAndTextToBuffer ==
    /\ at = "applyFilterAndTextToBuffer"
    /\ \E ok \in BOOLEAN :
          /\ processedImageBuffer' = IF ok THEN ImageBuffer ELSE Null
          /\ logger' = IF ok THEN logger
                       ELSE Append(logger, "Error processing image with Sharp:")
          /\ at' = IF ok THEN "writeImage" ELSE "done"
    /\ UNCHANGED <<env, oceanInstance, inputSource, fetched, imageBufferToProcess,
                   written>>
    /\ UNCHANGED serverVars

\* Mutant: the image write outside the try, its failure ignored, so that
\* results.json is written whether or not the image was.
WriteImageUnchecked ==
    /\ at = "writeImage"
    /\ \E ok \in BOOLEAN :
          /\ written' = IF ok THEN Append(written, "outputPath") ELSE written
          /\ logger' = logger
    /\ at' = "writeResults"
    /\ UNCHANGED <<env, oceanInstance, inputSource, fetched, imageBufferToProcess,
                   processedImageBuffer>>
    /\ UNCHANGED serverVars

\* The output directory is made and the image written (lines 346-365); a
\* failure of either is caught at line 386.
WriteImage ==
    /\ at = "writeImage"
    /\ \E ok \in BOOLEAN :
          /\ written' = IF ok THEN Append(written, "outputPath") ELSE written
          /\ logger' = IF ok THEN logger
                       ELSE Append(logger, "Error creating output directory or saving image/metadata")
          /\ at' = IF ok THEN "writeResults" ELSE "done"
    /\ UNCHANGED <<env, oceanInstance, inputSource, fetched, imageBufferToProcess,
                   processedImageBuffer>>
    /\ UNCHANGED serverVars

\* results.json is written (lines 369-383); a failure is caught at line 386.
WriteResults ==
    /\ at = "writeResults"
    /\ \E ok \in BOOLEAN :
          /\ written' = IF ok THEN Append(written, "results.json") ELSE written
          /\ logger' = IF ok THEN logger
                       ELSE Append(logger, "Error creating output directory or saving image/metadata")
    /\ at' = "done"
    /\ UNCHANGED <<env, oceanInstance, inputSource, fetched, imageBufferToProcess,
                   processedImageBuffer>>
    /\ UNCHANGED serverVars

----------------------------------------------------------------------------
(* Specification: one request at a time through the whole endpoint.        *)

Ids == {"r1"}

Init ==
    /\ pc = [r \in Ids |-> "idle"]
    /\ req = [r \in Ids |-> NoReq]
    /\ err = [r \in Ids |-> NoErr]
    /\ invoked = [r \in Ids |-> FALSE]
    /\ textOpts = [r \in Ids |-> NoOpts]
    /\ svgText = [r \in Ids |-> NoSvg]
    /\ res = [r \in Ids |-> NoRes]
    /\ log = <<>>
    /\ io = <<>>
    /\ ScriptNotRun

Next ==
    \/ \E r \in DOMAIN pc : Receive(r, Requests)
    \/ \E r \in DOMAIN pc : Upload(r)
    \/ \E r \in DOMAIN pc : ErrorHandler(r)
    \/ \E r \in DOMAIN pc : Route(r)
    \/ \E r \in DOMAIN pc : MetadataFails(r)
    \/ \E r \in DOMAIN pc : Resolve(r)
    \/ \E r \in DOMAIN pc : EncodeFails(r)
    \/ \E r \in DOMAIN pc : Respond(r)

Spec == Init /\ [][Next]_vars

----------------------------------------------------------------------------
(* Specification: two requests in flight, their steps interleaved.         *)

ConcIds == {"r1", "r2"}

\* One request for each way through the endpoint.
ConcRequests ==
    {[file |-> NoFile, body |-> NoBody],
     [file |-> File("text/plain", 1024, 400, 300, Undefined),
      body |-> [NoBody EXCEPT !.text = Str(<<"a">>)]],
     [file |-> File("image/png", fileSize + 1, 400, 300, Str(png)),
      body |-> [NoBody EXCEPT !.text = Str(<<"a">>)]],
     [file |-> GoodFile, body |-> NoBody],
     [file |-> GoodFile, body |-> [NoBody EXCEPT !.text = Str(HiThere)]],
     [file |-> File("image/jpeg", 1024, 1300, 1000, Str(jpeg)),
      body |-> [NoBody EXCEPT !.text = Str(<<"&">>), !.fontSize = Str(<<"4","0">>),
                              !.outputFormat = Str(<<"J","P","G">>)]],
     [file |-> File("image/webp", 1024, 100, 250, Str(webp)),
      body |-> [NoBody EXCEPT !.text = Str(<<>>),
                              !.outputFormat = Str(<<"b","m","p">>)]],
     [file |-> GoodFile,
      body |-> [NoBody EXCEPT !.text = Str(<<"a">>),
                              !.outputFormat = Arr(<<"p","n","g",",","g","i","f">>)]]}

InitConc ==
    /\ pc = [r \in ConcIds |-> "idle"]
    /\ req = [r \in ConcIds |-> NoReq]
    /\ err = [r \in ConcIds |-> NoErr]
    /\ invoked = [r \in ConcIds |-> FALSE]
    /\ textOpts = [r \in ConcIds |-> NoOpts]
    /\ svgText = [r \in ConcIds |-> NoSvg]
    /\ res = [r \in ConcIds |-> NoRes]
    /\ log = <<>>
    /\ io = <<>>
    /\ ScriptNotRun

NextConc ==
    \/ \E r \in DOMAIN pc : Receive(r, ConcRequests)
    \/ \E r \in DOMAIN pc : Upload(r)
    \/ \E r \in DOMAIN pc : ErrorHandler(r)
    \/ \E r \in DOMAIN pc : Route(r)
    \/ \E r \in DOMAIN pc : MetadataFails(r)
    \/ \E r \in DOMAIN pc : Resolve(r)
    \/ \E r \in DOMAIN pc : EncodeFails(r)
    \/ \E r \in DOMAIN pc : Respond(r)

SpecConc == InitConc /\ [][NextConc]_vars

----------------------------------------------------------------------------
(* Specification: two requests in flight, every pending step of a request  *)
(* eventually run: Express calls the next middleware, and the awaited       *)
(* metadata() and toBuffer() promises settle.                              *)

\* Any step of the handling of request r, once received.
Handle(r) ==
    \/ Upload(r)
    \/ ErrorHandler(r)
    \/ Route(r)
    \/ MetadataFails(r)
    \/ Resolve(r)
    \/ EncodeFails(r)
    \/ Respond(r)

SpecLive == InitConc /\ [][NextConc]_vars /\ \A r \in ConcIds : WF_vars(Handle(r))

----------------------------------------------------------------------------
(* Specification: one run of the standalone script, in any environment.    *)

InitScript ==
    /\ pc = <<>>
    /\ req = <<>>
    /\ err = <<>>
    /\ invoked = <<>>
    /\ textOpts = <<>>
    /\ svgText = <<>>
    /\ res = <<>>
    /\ log = <<>>
    /\ io = <<>>
    /\ at = "main"
    /\ env \in Envs
    /\ oceanInstance = NullOcean
    /\ inputSource = "none"
    /\ fetched = <<>>
    /\ imageBufferToProcess = Null
    /\ processedImageBuffer = Null
    /\ written = <<>>
    /\ logger = <<>>

NextScript ==
    \/ MainStart
    \/ GetImageBuffer
    \/ ReadFile
    \/ DownloadOceanAsset
    \/ AxiosGet
    \/ ApplyFilterAndTextToBuffer
    \/ WriteImage
    \/ WriteResults

SpecScript == InitScript /\ [][NextScript]_vars

\* The same run with main never left suspended: every awaited promise
\* settles.
SpecScriptLive == InitScript /\ [][NextScript]_vars /\ WF_vars(NextScript)

----------------------------------------------------------------------------
(* Properties.                                                             *)

\* addTextToImage has resolved request r's options (lines 77-103 ran).
Resolved(r) == textOpts[r] # NoOpts

\* The route answered request r with the encoded image.
Succeeded(r) == res[r].sent /\ res[r].status = 200

SupportedFormats == {jpeg, png, webp, avif, tiff, gif}

\* C1: whatever the outputFormat option and the detected source format, the
\* resolved output format, and the format addTextToImage returns to the
\* route, is one of jpeg, png, webp, avif, tiff, gif; jpg is never returned.
C1_FormatSupported ==
    \A r \in DOMAIN pc :
        /\ Resolved(r) => textOpts[r].outputFormat \in SupportedFormats
        /\ res[r].body = "image" => /\ res[r].format \in SupportedFormats
                                    /\ res[r].format # jpg

\* An image was returned for outputFormat=BMP on a source sharp reports as heif.
C1_Witness ==
    \E r \in DOMAIN pc :
        /\ res[r].body = "image"
        /\ req[r].body.outputFormat = Str(<<"B","M","P">>)
        /\ req[r].file.format = Str(<<"h","e","i","f">>)

\* The outputFormat field of request r is jpg in some letter case.
AsksJpg(r) ==
    /\ req[r].body.outputFormat.kind = "string"
    /\ Len(req[r].body.outputFormat.v) = 3
    /\ req[r].body.outputFormat.v[1] \in {"j", "J"}
    /\ req[r].body.outputFormat.v[2] \in {"p", "P"}
    /\ req[r].body.outputFormat.v[3] \in {"g", "G"}

\* C2: an outputFormat of jpg in any letter case resolves to jpeg, and the
\* response of such a request, when it succeeds, carries Content-Type
\* image/jpeg.
C2_JpgIsJpeg ==
    \A r \in DOMAIN pc :
        AsksJpg(r) =>
            /\ Resolved(r) => textOpts[r].outputFormat = jpeg
            /\ Succeeded(r) => /\ res[r].body = "image"
                               /\ res[r].contentType = <<"image/","j","p","e","g">>

\* A request with outputFormat=JpG on a png source was answered with 200.
C2_Witness ==
    \E r \in DOMAIN pc :
        /\ req[r].body.outputFormat = Str(<<"J","p","G">>)
        /\ req[r].file.format = Str(png)
        /\ Succeeded(r)

\* The names the whitelist accepts, and every letter case of each.
FoldsToValid(s) ==
    \E f \in validFormats :
        /\ Len(s) = Len(f)
        /\ \A i \in 1..Len(f) :
              \/ s[i] = f[i]
              \/ \E k \in 1..Len(Upper) : s[i] = Upper[k] /\ f[i] = Lowercase[k]

\* Request r was not refused: it was answered with the image as png, or it
\* failed inside sharp.
NotRejectedPng(r) ==
    res[r].sent =>
        \/ /\ res[r].status = 200
           /\ res[r].body = "image"
           /\ res[r].contentType = <<"image/","p","n","g">>
        \/ /\ res[r].status = 500
           /\ \E m \in SharpErrors :
                 res[r].error = <<"Failed to add text overlay: ">> \o m

Warned(r) == \E i \in 1..Len(log) : log[i] = LogLine(r, "warn", "Invalid output format:")

DetectedOrPng(format) ==
    IF format.kind = "undefined" \/ format.v = <<>> THEN png
    ELSE IF format.v = jpg THEN jpeg
    ELSE IF format.v \in SupportedFormats THEN format.v
    ELSE png

\* C4: with no outputFormat option the resolved format is the source
\* image's detected format (whitelisted, jpg read as jpeg), or png when
\* none is detected.
C4_DefaultIsDetected ==
    \A r \in DOMAIN pc :
        req[r].body.outputFormat.kind = "undefined" /\ Resolved(r)
        => textOpts[r].outputFormat = DetectedOrPng(req[r].file.format)

\* No outputFormat on a webp source: resolved to webp.
C4_Witness ==
    \E r \in DOMAIN pc :
        /\ req[r].body.outputFormat.kind = "undefined"
        /\ req[r].file.format = Str(webp)
        /\ Resolved(r)
        /\ textOpts[r].outputFormat = webp

\* The named entity of each special character.
EntityOf(c) ==
    IF c = "<" THEN <<"&","l","t",";">>
    ELSE IF c = ">" THEN <<"&","g","t",";">>
    ELSE IF c = "&" THEN <<"&","a","m","p",";">>
    ELSE IF c = "'" THEN <<"&","a","p","o","s",";">>
    ELSE <<"&","q","u","o","t",";">>

Entities == {EntityOf(c) : c \in {"<", ">", "&", "'", "\""}}

\* t starts with p.
StartsWith(t, p) == Len(t) >= Len(p) /\ SubSeq(t, 1, Len(p)) = p

\* t from position i on.
From(t, i) == SubSeq(t, i, Len(t))

RECURSIVE IsEscapeOf(_, _)
\* t is s with each special character replaced by its entity and every other
\* character kept, in order.
IsEscapeOf(s, t) ==
    IF s = <<>> THEN t = <<>>
    ELSE IF Head(s) \in {"<", ">", "&", "'", "\""}
    THEN /\ StartsWith(t, EntityOf(Head(s)))
         /\ IsEscapeOf(Tail(s), From(t, Len(EntityOf(Head(s))) + 1))
    ELSE /\ t # <<>>
         /\ Head(t) = Head(s)
         /\ IsEscapeOf(Tail(s), Tail(t))

\* t holds none of < > ' " and each of its & begins a named entity.
NoRawSpecials(t) ==
    \A i \in 1..Len(t) :
        /\ t[i] \notin {"<", ">", "'", "\""}
        /\ t[i] = "&" => \E e \in Entities : StartsWith(From(t, i), e)

\* The markup of request r has been built.
MarkupBuilt(r) == svgText[r] # NoSvg

\* C5 as stated: for every text string the text node holds no raw special
\* character, and is the text with each special character replaced by its
\* entity and everything else unchanged.
C5_TextNodeIsEscapedText ==
    \A r \in DOMAIN pc :
        MarkupBuilt(r) /\ req[r].body.text.kind = "string"
        => /\ NoRawSpecials(svgText[r].textNode)
           /\ IsEscapeOf(req[r].body.text.v, svgText[r].textNode)

\* C5 amended: for every text string the text node holds no raw special
\* character; for every non-empty text string it is the text with each
\* special character replaced by its entity and everything else unchanged.
C5_NonEmptyTextNodeIsEscapedText ==
    \A r \in DOMAIN pc :
        MarkupBuilt(r) /\ req[r].body.text.kind = "string"
        => /\ NoRawSpecials(svgText[r].textNode)
           /\ (req[r].body.text.v # <<>>
                  => IsEscapeOf(req[r].body.text.v, svgText[r].textNode))

\* The text &'< was placed in the markup as &amp;&apos;&lt;.
C5_Witness ==
    \E r \in DOMAIN pc :
        /\ req[r].body.text = Str(<<"&", "'", "<">>)
        /\ MarkupBuilt(r)
        /\ svgText[r].textNode =
              <<"&","a","m","p",";","&","a","p","o","s",";","&","l","t",";">>

\* C6 as stated: the resolved font size and the resolved stroke width are
\* positive for every image size and every fontSize and strokeWidth value.
C6_SizesPositive ==
    \A r \in DOMAIN pc :
        Resolved(r) => textOpts[r].fontSize > 0 /\ textOpts[r].strokeWidth > 0

\* No fontSize was supplied: the field is absent or empty.
NoFontSize(r) == req[r].body.fontSize \in {Undefined, Str(<<>>)}

\* C7: with no fontSize supplied the resolved font size is
\* max(20, min(width, height) / 12); both sides are multiplied by 12.
C7_DefaultFontSize ==
    \A r \in DOMAIN pc :
        NoFontSize(r) /\ Resolved(r)
        => 12 * textOpts[r].fontSize =
              Max(20 * 12 * Scale, Min(req[r].file.width, req[r].file.height) * Scale)

\* A 400x1000 image with no fontSize: the font size is 400/12, not an integer.
C7_Witness ==
    \E r \in DOMAIN pc :
        /\ req[r].body.fontSize = Undefined
        /\ req[r].file.width = 400
        /\ req[r].file.height = 1000
        /\ Resolved(r)
        /\ 12 * textOpts[r].fontSize = 400 * Scale

\* No strokeWidth was supplied: the field is absent or empty.
NoStrokeWidth(r) == req[r].body.strokeWidth \in {Undefined, Str(<<>>)}

\* C8: with no strokeWidth supplied the resolved stroke width is
\* max(1, resolvedFontSize / 20) for the font size the request resolved to;
\* both sides are multiplied by 20.
C8_DefaultStrokeWidth ==
    \A r \in DOMAIN pc :
        NoStrokeWidth(r) /\ Resolved(r)
        => 20 * textOpts[r].strokeWidth = Max(20 * Scale, textOpts[r].fontSize)

\* fontSize=40 with no strokeWidth: the stroke width is 2.
C8_Witness ==
    \E r \in DOMAIN pc :
        /\ req[r].body.strokeWidth = Undefined
        /\ req[r].body.fontSize = Str(<<"4","0">>)
        /\ Resolved(r)
        /\ textOpts[r].strokeWidth = 2 * Scale

\* sub occurs in t.
Contains(t, sub) ==
    \E i \in 1..(Len(t) - Len(sub) + 1) : SubSeq(t, i, i + Len(sub) - 1) = sub

\* An uploaded 400x300 PNG with text "Hi <there>" and no other field.
Scenario400x300(r) ==
    /\ req[r].file = File("image/png", 1024, 400, 300, Str(png))
    /\ req[r].body = [NoBody EXCEPT !.text = Str(HiThere)]

HiThereEscaped ==
    <<"H","i"," ","&","l","t",";","t","h","e","r","e","&","g","t",";">>

\* The scenario's outcome with the font size left open.
ScenarioOutcome(r, size) ==
    /\ MarkupBuilt(r) =>
          /\ Contains(svgText[r].textNode, HiThereEscaped)
          /\ textOpts[r].outputFormat = png
          /\ textOpts[r].fontSize = size * Scale
          /\ svgText[r].fontSize = size * Scale
    /\ Succeeded(r) => res[r].contentType = <<"image/","p","n","g">>

\* C9 as stated: the scenario resolves to font size 33.
C9_ScenarioFontSize33 ==
    \A r \in DOMAIN pc : Scenario400x300(r) => ScenarioOutcome(r, 33)

\* C9 amended: for an uploaded 400x300 PNG with text "Hi <there>" and no
\* other fields the markup contains Hi &lt;there&gt;, the resolved format is
\* png, the resolved font size is 25 (300 / 12), and the response
\* Content-Type is image/png.
C9_ScenarioFontSize25 ==
    \A r \in DOMAIN pc : Scenario400x300(r) => ScenarioOutcome(r, 25)

\* The scenario's request was answered with the image.
C9_Witness ==
    \E r \in DOMAIN pc :
        /\ Scenario400x300(r)
        /\ Succeeded(r)
        /\ res[r].body = "image"
        /\ svgText[r].textNode = HiThereEscaped

\* C10: a request with no uploaded file is answered with 400 and the error
\* "No image file uploaded." whatever its other fields are, the text field
\* missing included, and addTextToImage is never called for it.
C10_NoFileIs400 ==
    \A r \in DOMAIN pc :
        pc[r] # "idle" /\ ~req[r].file.present
        => /\ ~invoked[r]
           /\ pc[r] \in {"upload", "route", "done"}
           /\ pc[r] = "done" <=> res[r].sent
           /\ res[r].sent => /\ res[r].status = 400
                             /\ res[r].body = "json"
                             /\ res[r].error = <<"No image file uploaded.">>

\* A request with neither file nor text field was answered.
C10_Witness ==
    \E r \in DOMAIN pc :
        /\ ~req[r].file.present
        /\ req[r].body.text = Undefined
        /\ res[r].sent
        /\ res[r].status = 400

\* Request r carries a file that multer accepted: req.file is set.
FileAccepted(r) ==
    /\ req[r].file.present
    /\ req[r].file.mimetype \in allowedMimes
    /\ req[r].file.size <= fileSize

\* Request r is past the two checks of the route.
PastRoute(r) == pc[r] \in {"metadata", "encode", "done"}

\* C11: a request with an image but no text field at all is answered with
\* 400 and "No text parameter provided for overlay."; a request whose text
\* field is the empty string passes this check and goes on to processing.
C11_MissingTextIs400 ==
    \A r \in DOMAIN pc :
        FileAccepted(r) /\ PastRoute(r)
        => /\ req[r].body.text = Undefined
              => /\ pc[r] = "done"
                 /\ ~invoked[r]
                 /\ res[r] = JsonError(400, <<"No text parameter provided for overlay.">>)
           /\ req[r].body.text = Str(<<>>)
              => /\ invoked[r]
                 /\ res[r].error # <<"No text parameter provided for overlay.">>

\* A request with an image and no text field was answered with 400.
C11_Witness ==
    \E r \in DOMAIN pc :
        /\ FileAccepted(r)
        /\ req[r].body.text = Undefined
        /\ req[r].body.outputFormat = Undefined
        /\ res[r].sent
        /\ res[r].status = 400

\* The upload of request r breaks the size limit or the type filter.
UploadViolation(r) ==
    /\ req[r].file.present
    /\ \/ req[r].file.size > fileSize
       \/ req[r].file.mimetype \notin allowedMimes

\* C12 as stated: an upload larger than 10 MB or of a type outside the
\* allowed list is answered with 400 and an error beginning "File upload
\* error: ", and the body of the route handler does not run.
C12_UploadViolationIs400 ==
    \A r \in DOMAIN pc :
        UploadViolation(r) /\ pc[r] # "idle"
        => /\ ~invoked[r]
           /\ pc[r] \in {"upload", "error", "done"}
           /\ res[r].sent => /\ res[r].status = 400
                             /\ res[r].body = "json"
                             /\ StartsWith(res[r].error, <<"File upload error: ">>)

\* The catch of addTextToImage caught, for request r, an error with message m.
ProcessingFailed(r, m) ==
    \E i \in 1..Len(io) : io[i] = Console(r, "Error in addTextToImage:", m)

\* Request r was answered with status 500 and the JSON error e, with no
\* image body and no image Content-Type.
FailedWith(r, e) ==
    /\ res[r].sent
    /\ res[r].status = 500
    /\ res[r].body = "json"
    /\ res[r].error = e
    /\ res[r].format = <<>>
    /\ res[r].contentType = <<"application/json">>

\* C13 as stated: a failure of the decode / composite / encode step is
\* answered with 500 and the failure's own message, unmodified.
C13_FailureMessageVerbatim ==
    \A r \in DOMAIN pc : \A m \in SharpErrors :
        ProcessingFailed(r, m) => FailedWith(r, m)

\* C13 amended: a failure of the decode / composite / encode step is
\* answered with 500 and the failure's message prefixed with "Failed to add
\* text overlay: ", with no image body and no image Content-Type.
C13_FailureMessagePrefixed ==
    \A r \in DOMAIN pc : \A m \in SharpErrors :
        ProcessingFailed(r, m)
        => FailedWith(r, <<"Failed to add text overlay: ">> \o m)

\* The encode of a resolved request failed on a corrupt header.
C13_Witness ==
    \E r \in DOMAIN pc :
        /\ Resolved(r)
        /\ ProcessingFailed(r, <<"Input buffer has corrupt header">>)
        /\ res[r].status = 500

\* C14: when the encode of a request completes without failure the request
\* is answered with 200, the encoded image and Content-Type
\* image/<resolvedFormat>, the format the compositor resolved; and an image
\* is only ever sent by the step that completes the encode, for a request
\* with an accepted file and a text field.
C14_SuccessIsImage ==
    [][\A r \in DOMAIN pc :
          /\ (pc[r] = "encode" /\ pc'[r] = "done" /\ log' = log)
             => /\ res'[r].sent
                /\ res'[r].status = 200
                /\ res'[r].body = "image"
                /\ res'[r].format = textOpts[r].outputFormat
                /\ res'[r].contentType = <<"image/">> \o textOpts[r].outputFormat
          /\ (res'[r].body = "image" /\ res[r].body # "image")
             => /\ pc[r] = "encode"
                /\ invoked[r]
                /\ Resolved(r)
                /\ FileAccepted(r)
                /\ req[r].body.text # Undefined]_vars

\* outputFormat=WebP was answered with 200 and Content-Type image/webp.
C14_Witness ==
    \E r \in DOMAIN pc :
        /\ req[r].body.outputFormat = Str(<<"W","e","b","P">>)
        /\ Succeeded(r)
        /\ res[r].body = "image"
        /\ res[r].contentType = <<"image/","w","e","b","p">>

\* Request r was answered with an error status.
ErrorAnswered(r) == res[r].sent /\ res[r].status >= 400

\* A console.error line of request r was written before its response.
LoggedBeforeSent(r) ==
    \E i, j \in 1..Len(io) :
        /\ i < j
        /\ io[i].kind = "console"
        /\ io[i].r = r
        /\ io[i].tag \in {"Multer error:", "Unhandled error:",
                          "Error in addTextToImage:",
                          "Route /api/image/add-text error:"}
        /\ io[j].kind = "response"
        /\ io[j].r = r

\* C15 as stated: every error response (missing file, missing text, upload
\* violation, processing failure) is preceded by a log entry for the error.
C15_EveryErrorLogged ==
    \A r \in DOMAIN pc : ErrorAnswered(r) => LoggedBeforeSent(r)

\* C15 amended: every error response to an upload violation or a
\* processing failure is preceded by a log entry for the error; the 400
\* responses for a missing file and a missing text field are not logged.
C15_UploadAndProcessingErrorsLogged ==
    \A r \in DOMAIN pc :
        ErrorAnswered(r)
        => IF UploadViolation(r) \/ invoked[r]
           THEN LoggedBeforeSent(r)
           ELSE \A i \in 1..Len(io) : io[i].r = r => io[i].kind = "response"

\* A disallowed upload was logged, then answered.
C15_Witness ==
    \E r \in DOMAIN pc :
        /\ req[r].file.mimetype = "text/plain"
        /\ ErrorAnswered(r)
        /\ LoggedBeforeSent(r)

\* The responses request q can receive when it is the only request: one per
\* way multer and sharp can treat its upload.
SoloResponses(q) ==
    LET metadata == metadataOf(q.file)
        options  == gatherOptions(q.body)
        failures == {JsonError(500, <<"Failed to add text overlay: ">> \o m) :
                        m \in SharpErrors}
    IN  IF ~q.file.present
        THEN {JsonError(400, <<"No image file uploaded.">>)}
        ELSE IF q.file.mimetype \notin allowedMimes
        THEN {JsonError(500, <<"Invalid file type. Only image files are allowed.">>)}
        ELSE IF q.file.size > fileSize
        THEN {JsonError(400, <<"File upload error: ", "File too large",
                               ". Check file size or type.">>)}
        ELSE IF q.body.text = Undefined
        THEN {JsonError(400, <<"No text parameter provided for overlay.">>)}
        ELSE IF formatThrows(metadata, options)
        THEN failures \cup
             {JsonError(500, <<"Failed to add text overlay: ">> \o TypeErrorMessage)}
        ELSE failures \cup {ImageResponse(outputFormat(metadata, options))}

\* The state kept for request r is what its own image and fields determine.
OwnOutcome(r) ==
    LET metadata == metadataOf(req[r].file)
        options  == gatherOptions(req[r].body)
        opts     == resolveTextOpts(metadata, req[r].body.text, options)
    IN  /\ textOpts[r] \in {NoOpts, opts}
        /\ svgText[r] \in {NoSvg, buildSvg(metadata, opts)}
        /\ res[r].sent => res[r] \in SoloResponses(req[r])

\* The state kept for request r is left as it is.
Untouched(r) ==
    /\ pc'[r] = pc[r]
    /\ req'[r] = req[r]
    /\ err'[r] = err[r]
    /\ invoked'[r] = invoked[r]
    /\ textOpts'[r] = textOpts[r]
    /\ svgText'[r] = svgText[r]
    /\ res'[r] = res[r]

\* C16: with two requests in flight and their steps interleaved in any
\* order, a step of one request leaves the other request's state alone, and
\* each request's resolved options, markup and response are those its own
\* image and fields give when it is processed alone.
C16_RequestsIndependent ==
    /\ [](\A r \in DOMAIN pc : OwnOutcome(r))
    /\ [][\A r, s \in DOMAIN pc : r # s /\ pc'[r] # pc[r] => Untouched(s)]_vars

\* Both requests were answered with an image, in different formats, the
\* second one to arrive being answered first.
C16_Witness ==
    /\ DOMAIN pc = ConcIds
    /\ res["r1"].body = "image"
    /\ res["r2"].body = "image"
    /\ res["r1"].format # res["r2"].format
    /\ \E i, j \in 1..Len(io) : i < j /\ io[i] = Sent("r2", 200) /\ io[j] = Sent("r1", 200)

\* C17: every error caught by addTextToImage comes from the delegated
\* decode / composite / encode step; none is raised while the options are
\* resolved and the markup generated, whatever field values the endpoint
\* passes.
C17_NoResolutionFailure ==
    \A r \in DOMAIN pc : \A i \in 1..Len(io) :
        io[i] = Console(r, "Error in addTextToImage:", io[i].message)
        => io[i].message \in SharpErrors

\* The responses sent for request r, as positions in the output trace.
Responses(r) == {i \in 1..Len(io) : io[i].kind = "response" /\ io[i].r = r}

\* C18: every request received is eventually answered, and from then on has
\* exactly one response; at no time has a request two responses, and every
\* response has status 200, 400 or 500.
C18_ExactlyOneResponse ==
    /\ [](\A r \in ConcIds :
            /\ Cardinality(Responses(r)) <= 1
            /\ \A i \in Responses(r) : io[i].status \in {200, 400, 500})
    /\ \A r \in ConcIds : (pc[r] # "idle") ~> [](Cardinality(Responses(r)) = 1)

\* Both requests were answered once each, one by the global error handler
\* and one by the route.
C18_Witness ==
    /\ DOMAIN pc = ConcIds
    /\ \A r \in ConcIds : Cardinality(Responses(r)) = 1
    /\ \E i \in 1..Len(io) : io[i] = Sent("r1", 500) /\ err["r1"] # NoErr
    /\ \E i \in 1..Len(io) : io[i] = Sent("r2", 200)

\* C19: a request with an accepted image whose text field is the empty
\* string is not turned away by the route but handed to addTextToImage, and
\* the text node of its markup is "Sample Text", the text resolved for an
\* absent text.
C19_EmptyTextIsSampleText ==
    \A r \in DOMAIN pc :
        FileAccepted(r) /\ req[r].body.text = Str(<<>>)
        => /\ PastRoute(r) => invoked[r]
           /\ MarkupBuilt(r)
              => /\ svgText[r].textNode = SampleText
                 /\ svgText[r].textNode =
                       resolveTextOpts(metadataOf(req[r].file), Undefined,
                                       gatherOptions(req[r].body)).text

\* A request with an empty text field was answered with an image whose
\* markup reads "Sample Text".
C19_Witness ==
    \E r \in DOMAIN pc :
        /\ req[r].body.text = Str(<<>>)
        /\ Succeeded(r)
        /\ svgText[r].textNode = SampleText

\* An environment variable has a value, and not the empty one.
IsSet(v) == v.kind = "string" /\ v.v # <<>>

\* The input the priority order names for the environment: the kind of
\* source and what is asked of it.
PriorityInput ==
    IF IsSet(env.INPUT_FILE_PATH_0)
    THEN [branch |-> "file", fetch |-> Fetched("file", env.INPUT_FILE_PATH_0.v)]
    ELSE IF IsSet(env.INPUT_DID_0)
    THEN [branch |-> "did", fetch |-> Fetched("did", env.INPUT_DID_0.v)]
    ELSE IF IsSet(env.INPUT_IMAGE_URL)
    THEN [branch |-> "url", fetch |-> Fetched("url", env.INPUT_IMAGE_URL.v)]
    ELSE IF IsSet(env.IMAGE_URL)
    THEN [branch |-> "url", fetch |-> Fetched("url", env.IMAGE_URL.v)]
    ELSE [branch |-> "default", fetch |-> Fetched("url", defaultImageUrl)]

\* The lines logged when the chosen input fails: a missing file, a null
\* Ocean instance, a failed download, a failed read or request.
FetchFailures ==
    DownloadFailures \cup
    {"Error: Input file path does not exist:",
     "Ocean instance not initialized, cannot process DID input.",
     "Error getting image buffer:"}

\* getImageBuffer has taken its branch.
SourceChosen == inputSource # "none"

\* C20: once getImageBuffer has taken its branch, the branch is the first
\* of INPUT_FILE_PATH_0, INPUT_DID_0, INPUT_IMAGE_URL / IMAGE_URL that is
\* set (non-empty), else the default URL; nothing but that one input is
\* ever read or requested; and when it fails (missing file, null Ocean
\* instance, failed download, read or request) the run ends with no image
\* buffer and nothing else fetched, whatever else is configured.
C20_StrictPriority ==
    SourceChosen
    => /\ inputSource = PriorityInput.branch
       /\ fetched \in {<<>>, <<PriorityInput.fetch>>}
       /\ inputSource = "did" /\ ~oceanInstance.present => fetched = <<>>
       /\ (\E i \in 1..Len(logger) : logger[i] \in FetchFailures)
          => /\ at = "done"
             /\ imageBufferToProcess = Null

\* A run with a file path that does not exist and both URLs configured
\* ended without a buffer, having looked at the file only.
C20_Witness ==
    /\ IsSet(env.INPUT_FILE_PATH_0)
    /\ IsSet(env.INPUT_IMAGE_URL)
    /\ IsSet(env.IMAGE_URL)
    /\ at = "done"
    /\ \E i \in 1..Len(logger) : logger[i] = "Error: Input file path does not exist:"
    /\ imageBufferToProcess = Null
    /\ fetched = <<Fetched("file", env.INPUT_FILE_PATH_0.v)>>

\* The positions in the written files at which f was written.
WrittenAt(f) == {i \in 1..Len(written) : written[i] = f}

\* C21: results.json is written at most once and only after the processed
\* image has been written; a run that got no image buffer, or whose
\* processing returned no buffer, writes neither of the two; and every run,
\* whatever fails in fetching, processing or writing, comes to the end of
\* main and stays there.
C21_ManifestAfterImage ==
    /\ [](/\ \A j \in WrittenAt("results.json") :
                \E i \in WrittenAt("outputPath") : i < j
          /\ Cardinality(WrittenAt("results.json")) <= 1
          /\ Cardinality(WrittenAt("outputPath")) <= 1
          /\ at = "done" /\ (imageBufferToProcess = Null \/ processedImageBuffer = Null)
             => WrittenAt("results.json") \cup WrittenAt("outputPath") = {})
    /\ <>[](at = "done")

\* A run that fetched and processed its image but failed to write it ended
\* with neither the image nor results.json written.
C21_Witness ==
    /\ at = "done"
    /\ imageBufferToProcess = ImageBuffer
    /\ processedImageBuffer = ImageBuffer
    /\ WrittenAt("outputPath") = {}
    /\ WrittenAt("results.json") = {}
    /\ logger # <<>>
    /\ logger[Len(logger)] = "Error creating output directory or saving image/metadata"

====
